---- MODULE Spec2Model ----
(***************************************************************************)
(* Frame transformation engine of satstuff: the custom TEME and TIRS       *)
(* frames of notebooks/astropy/sgp4_teme_astropy.ipynb, the four transform *)
(* functions registered on the frame transform graph, and transform_to     *)
(* walking the graph.                                                      *)
(*                                                                         *)
(* Arithmetic is exact integer arithmetic.  Angles are counted in quarter  *)
(* turns, so that every rotation matrix has entries in {-1, 0, 1}.         *)
(* Positions are in km, velocities in 1e-11 km/s, so that the Earth's      *)
(* angular velocity 7.292115E-5 rad/s is the integer 7292115.              *)
(***************************************************************************)
EXTENDS Integers, Sequences, FiniteSets, TLC

\* Number of instants (obstime values) the coordinates and frames range over.
NumInstants == 2

\* Largest number of transform_to calls made on one constructed coordinate.
MaxCalls == 3

\* Calls of transform_to on one coordinate whose instant may lie before the table.
MaxOldCalls == 1

Instants == 1..NumInstants

Frames == {"TEME", "TIRS", "ITRS"}

\* An absent vector (no velocity, no acceleration).
NoVec == <<>>

\* Sample positions [km]: off the rotation axis, in the equatorial plane, on the axis.
PosSet == {<<1, 2, 3>>, <<2, 0, 0>>, <<0, 0, 2>>}

\* Sample velocities [1e-11 km/s], or none.
VelSet == {NoVec, <<3, -1, 2>>, <<0, 0, 0>>}

\* Sample accelerations, or none.
AccSet == {NoVec, <<1, 0, 0>>}

---------------------------------------------------------------------------
(* Vector3 and RotationMatrix utilities *)

Cos4(k) == CASE k % 4 = 0 -> 1 [] k % 4 = 2 -> -1 [] OTHER -> 0

Sin4(k) == CASE k % 4 = 1 -> 1 [] k % 4 = 3 -> -1 [] OTHER -> 0

Dot(a, b) == a[1] * b[1] + a[2] * b[2] + a[3] * b[3]

\* CartesianRepresentation.transform(matrix): matrix times vector.
Transform(v, m) == <<Dot(m[1], v), Dot(m[2], v), Dot(m[3], v)>>

\* CartesianRepresentation(a).cross(b)
Cross(a, b) == <<a[2] * b[3] - a[3] * b[2],
                 a[3] * b[1] - a[1] * b[3],
                 a[1] * b[2] - a[2] * b[1]>>

VAdd(a, b) == <<a[1] + b[1], a[2] + b[2], a[3] + b[3]>>

VSub(a, b) == <<a[1] - b[1], a[2] - b[2], a[3] - b[3]>>

\* ndarray.transpose()
Transpose(m) == <<<<m[1][1], m[2][1], m[3][1]>>,
                  <<m[1][2], m[2][2], m[3][2]>>,
                  <<m[1][3], m[2][3], m[3][3]>>>>

Col(m, j) == <<m[1][j], m[2][j], m[3][j]>>

MatMul(a, b) == <<<<Dot(a[1], Col(b, 1)), Dot(a[1], Col(b, 2)), Dot(a[1], Col(b, 3))>>,
                  <<Dot(a[2], Col(b, 1)), Dot(a[2], Col(b, 2)), Dot(a[2], Col(b, 3))>>,
                  <<Dot(a[3], Col(b, 1)), Dot(a[3], Col(b, 2)), Dot(a[3], Col(b, 3))>>>>

Identity3 == <<<<1, 0, 0>>, <<0, 1, 0>>, <<0, 0, 1>>>>

\* rotation_matrix(angle, axis='x'|'y'|'z'), the angle in quarter turns.
rotation_matrix_x(k) == <<<<1, 0, 0>>,
                          <<0, Cos4(k), Sin4(k)>>,
                          <<0, -Sin4(k), Cos4(k)>>>>

rotation_matrix_y(k) == <<<<Cos4(k), 0, -Sin4(k)>>,
                          <<0, 1, 0>>,
                          <<Sin4(k), 0, Cos4(k)>>>>

rotation_matrix_z(k) == <<<<Cos4(k), Sin4(k), 0>>,
                          <<-Sin4(k), Cos4(k), 0>>,
                          <<0, 0, 1>>>>

---------------------------------------------------------------------------
(* Earth-orientation provider: pure functions of the instant, in quarter turns *)

\* An instant before the first entry of the Earth-orientation table.
BeforeIers == 0

\* The table has an entry for the instant.
IersCovers(obstime) == obstime > BeforeIers

\* The mean polar motion used for instants the table does not cover.
_DEFAULT_PM == <<0, 1>>

\* get_polar_motion(obstime): the polar-motion offsets xp, yp; for an instant the
\* table does not cover it warns and answers with the mean offsets.
get_polar_motion(obstime) ==
    IF IersCovers(obstime) THEN <<obstime % 4, (obstime + 1) % 4>> ELSE _DEFAULT_PM

\* erfa.sp00(*get_jd12(obstime, 'tt')): the TIO locator s'.
sp00(obstime) == (3 * obstime) % 4

\* erfa.pom00(xp, yp, sp) = Rx(-yp) . Ry(-xp) . Rz(sp)
pom00(xp, yp, sp) == MatMul(rotation_matrix_x(-yp),
                            MatMul(rotation_matrix_y(-xp), rotation_matrix_z(sp)))

_polar_mot_matrix(obstime) ==
    LET xpyp == get_polar_motion(obstime)
        sp == sp00(obstime)
    IN  pom00(xpyp[1], xpyp[2], sp)

\* erfa.gmst82(*get_jd12(obstime, 'ut1')); for an instant the table does not
\* cover get_jd12 warns and hands back the time in the scale it has.
_gmst82_angle(obstime) == obstime % 4

\* Nominal mean angular velocity of the Earth, 7.292115E-5 rad/s, in 1e-11 rad/s.
_w == <<0, 0, 7292115>>

---------------------------------------------------------------------------
(* Coordinates and frames *)

NoCoord == [frame |-> "none", obstime |-> 0, pos |-> NoVec, vel |-> NoVec, acc |-> NoVec]

\* A frame object without data: TIRS(obstime=t), TEME(obstime=t), ITRS(obstime=t).
FrameObj(name, obstime) == [frame |-> name, obstime |-> obstime]

\* frame.realize_frame(rep): the data attached to the frame object as given; the
\* result carries the frame's own obstime.
realize_frame(frame, r, v) ==
    [frame |-> frame.frame, obstime |-> frame.obstime, pos |-> r, vel |-> v, acc |-> NoVec]

\* What an edge gives back: a coordinate, or the exception it raised.
Return(c, m) == [err |-> "", coord |-> c, mat |-> m]

Raise(e) == [err |-> e, coord |-> NoCoord, mat |-> NoVec]

---------------------------------------------------------------------------
(* The transform functions of the two custom frames *)

\* @frame_transform_graph.transform(DynamicMatrixTransform, TIRS, ITRS)
tirs_to_itrs(tirs_coord, itrs_frame) ==
    LET tirs_to_itrs_mat == _polar_mot_matrix(tirs_coord.obstime)
    IN  tirs_to_itrs_mat

\* Variant of itrs_to_tirs: the transpose forgotten.
itrs_to_tirs_no_transpose(itrs_coord, tirs_frame) ==
    LET itrs_to_tirs_mat == _polar_mot_matrix(itrs_coord.obstime)
    IN  itrs_to_tirs_mat

\* @frame_transform_graph.transform(DynamicMatrixTransform, ITRS, TIRS)
itrs_to_tirs(itrs_coord, tirs_frame) ==
    LET itrs_to_tirs_mat == Transpose(_polar_mot_matrix(itrs_coord.obstime))
    IN  itrs_to_tirs_mat

\* teme_to_tirs with the rotation offset w x r left out.
teme_to_tirs_no_wxr(teme_coord, tirs_frame) ==
    LET teme_to_pef_mat == rotation_matrix_z(_gmst82_angle(teme_coord.obstime))
        r_tirs == Transform(teme_coord.pos, teme_to_pef_mat)
    IN  IF teme_coord.vel = NoVec
        THEN Raise("ValueError")
        ELSE LET v_tirs == Transform(teme_coord.vel, teme_to_pef_mat)
             IN  Return(realize_frame(tirs_frame, r_tirs, v_tirs), NoVec)

\* Variant of teme_to_tirs: the rotation offset taken with the TEME position instead
\* of the rotated one.
teme_to_tirs_wxr_teme(teme_coord, tirs_frame) ==
    LET teme_to_pef_mat == rotation_matrix_z(_gmst82_angle(teme_coord.obstime))
        r_tirs == Transform(teme_coord.pos, teme_to_pef_mat)
        wxr == Cross(_w, teme_coord.pos)
    IN  IF teme_coord.vel = NoVec
        THEN Raise("ValueError")
        ELSE LET v_tirs == VSub(Transform(teme_coord.vel, teme_to_pef_mat), wxr)
             IN  Return(realize_frame(tirs_frame, r_tirs, v_tirs), NoVec)

\* teme_to_tirs with the sidereal angle taken at the instant of the target frame.
teme_to_tirs_target_instant(teme_coord, tirs_frame) ==
    LET teme_to_pef_mat == rotation_matrix_z(_gmst82_angle(tirs_frame.obstime))
        r_tirs == Transform(teme_coord.pos, teme_to_pef_mat)
        wxr == Cross(_w, r_tirs)
    IN  IF teme_coord.vel = NoVec
        THEN Raise("ValueError")
        ELSE LET v_tirs == VSub(Transform(teme_coord.vel, teme_to_pef_mat), wxr)
             IN  Return(realize_frame(tirs_frame, r_tirs, v_tirs), NoVec)

\* @frame_transform_graph.transform(FunctionTransform, TEME, TIRS)
\* teme_coord.velocity raises ValueError when the frame carries no velocity.
teme_to_tirs(teme_coord, tirs_frame) ==
    LET teme_to_pef_mat == rotation_matrix_z(_gmst82_angle(teme_coord.obstime))
        r_tirs == Transform(teme_coord.pos, teme_to_pef_mat)
        wxr == Cross(_w, r_tirs)
    IN  IF teme_coord.vel = NoVec
        THEN Raise("ValueError")
        ELSE LET v_tirs == VSub(Transform(teme_coord.vel, teme_to_pef_mat), wxr)
             IN  Return(realize_frame(tirs_frame, r_tirs, v_tirs), NoVec)

\* tirs_to_teme with the rotation offset w x r left out.
tirs_to_teme_no_wxr(tirs_coord, teme_frame) ==
    LET teme_to_pef_mat == rotation_matrix_z(_gmst82_angle(tirs_coord.obstime))
        pef_to_teme_mat == Transpose(teme_to_pef_mat)
        r_teme == Transform(tirs_coord.pos, pef_to_teme_mat)
    IN  IF tirs_coord.vel = NoVec
        THEN Raise("ValueError")
        ELSE LET v_teme == Transform(tirs_coord.vel, pef_to_teme_mat)
             IN  Return(realize_frame(teme_frame, r_teme, v_teme), NoVec)

\* Variant of tirs_to_teme: the transpose forgotten.
tirs_to_teme_no_transpose(tirs_coord, teme_frame) ==
    LET teme_to_pef_mat == rotation_matrix_z(_gmst82_angle(tirs_coord.obstime))
        r_teme == Transform(tirs_coord.pos, teme_to_pef_mat)
        wxr == Cross(_w, tirs_coord.pos)
    IN  IF tirs_coord.vel = NoVec
        THEN Raise("ValueError")
        ELSE LET v_teme == Transform(VAdd(tirs_coord.vel, wxr), teme_to_pef_mat)
             IN  Return(realize_frame(teme_frame, r_teme, v_teme), NoVec)

\* Variant of tirs_to_teme: the rotation offset added after the velocity rotation.
tirs_to_teme_add_after(tirs_coord, teme_frame) ==
    LET teme_to_pef_mat == rotation_matrix_z(_gmst82_angle(tirs_coord.obstime))
        pef_to_teme_mat == Transpose(teme_to_pef_mat)
        r_teme == Transform(tirs_coord.pos, pef_to_teme_mat)
        wxr == Cross(_w, tirs_coord.pos)
    IN  IF tirs_coord.vel = NoVec
        THEN Raise("ValueError")
        ELSE LET v_teme == VAdd(Transform(tirs_coord.vel, pef_to_teme_mat), wxr)
             IN  Return(realize_frame(teme_frame, r_teme, v_teme), NoVec)

\* @frame_transform_graph.transform(FunctionTransform, TIRS, TEME)
tirs_to_teme(tirs_coord, teme_frame) ==
    LET teme_to_pef_mat == rotation_matrix_z(_gmst82_angle(tirs_coord.obstime))
        pef_to_teme_mat == Transpose(teme_to_pef_mat)
        r_teme == Transform(tirs_coord.pos, pef_to_teme_mat)
        wxr == Cross(_w, tirs_coord.pos)
    IN  IF tirs_coord.vel = NoVec
        THEN Raise("ValueError")
        ELSE LET v_teme == Transform(VAdd(tirs_coord.vel, wxr), pef_to_teme_mat)
             IN  Return(realize_frame(teme_frame, r_teme, v_teme), NoVec)

---------------------------------------------------------------------------
(* The frame transform graph *)

Edge(name, kind, src, dst) == [name |-> name, kind |-> kind, src |-> src, dst |-> dst]

\* The edges the first code cell registers (TIRS class and its two decorators).
TirsCellEdges == {Edge("tirs_to_itrs", "DynamicMatrixTransform", "TIRS", "ITRS"),
                  Edge("itrs_to_tirs", "DynamicMatrixTransform", "ITRS", "TIRS")}

\* Variant of TemeCellEdges: the decorator of teme_to_tirs names ITRS as its target,
\* which registers a direct TEME -> ITRS edge.
TemeCellEdges_shortcut == {Edge("teme_to_tirs", "FunctionTransform", "TEME", "ITRS"),
                           Edge("tirs_to_teme", "FunctionTransform", "TIRS", "TEME")}

\* The edges the second code cell registers (TEME class and its two decorators).
TemeCellEdges == {Edge("teme_to_tirs", "FunctionTransform", "TEME", "TIRS"),
                  Edge("tirs_to_teme", "FunctionTransform", "TIRS", "TEME")}

\* The frame classes that exist once the cells registering `edges` have run:
\* TIRS is defined (and ITRS imported) by the first cell, TEME by the second.
DefinedFrames(edges) ==
    (IF TirsCellEdges \subseteq edges THEN {"TIRS", "ITRS"} ELSE {})
        \cup (IF TemeCellEdges \subseteq edges THEN {"TEME"} ELSE {})

\* Variant of DynamicMatrixTransform: a rotating-frame offset subtracted from the
\* rotated velocity.
DynamicMatrixTransform_wxr(matrix, fromcoord, toframe) ==
    Return(realize_frame(toframe,
                         Transform(fromcoord.pos, matrix),
                         IF fromcoord.vel = NoVec THEN NoVec
                         ELSE VSub(Transform(fromcoord.vel, matrix),
                                   Cross(_w, Transform(fromcoord.pos, matrix)))),
           matrix)

\* A DynamicMatrixTransform edge: the matrix the function returns is applied to the
\* position and, when there is one, to the velocity; the result is realized in the
\* target frame.
DynamicMatrixTransform(matrix, fromcoord, toframe) ==
    Return(realize_frame(toframe,
                         Transform(fromcoord.pos, matrix),
                         IF fromcoord.vel = NoVec THEN NoVec
                         ELSE Transform(fromcoord.vel, matrix)),
           matrix)

\* Applying one registered edge to a coordinate.
ApplyEdge(e, fromcoord, toframe) ==
    CASE e.name = "tirs_to_itrs" ->
            DynamicMatrixTransform(tirs_to_itrs(fromcoord, toframe), fromcoord, toframe)
      [] e.name = "itrs_to_tirs" ->
            DynamicMatrixTransform(itrs_to_tirs(fromcoord, toframe), fromcoord, toframe)
      [] e.name = "teme_to_tirs" -> teme_to_tirs(fromcoord, toframe)
      [] e.name = "tirs_to_teme" -> tirs_to_teme(fromcoord, toframe)

\* The chains of n registered edges leading from frame a to frame b.
PathsOfLen(edges, a, b, n) ==
    {p \in [1..n -> edges] :
        /\ p[1].src = a
        /\ p[n].dst = b
        /\ \A i \in 1..(n - 1) : p[i].dst = p[i + 1].src}

PathLens(edges, a, b) ==
    {n \in 1..(Cardinality(Frames) - 1) : PathsOfLen(edges, a, b, n) # {}}

\* Shortest path by edge count; <<>> when the frames are not connected.
find_shortest_path(edges, a, b) ==
    IF PathLens(edges, a, b) = {} THEN <<>>
    ELSE LET n == CHOOSE k \in PathLens(edges, a, b) :
                      \A j \in PathLens(edges, a, b) : k <= j
         IN  CHOOSE p \in PathsOfLen(edges, a, b, n) : TRUE

Step(e, inp, r) == [edge |-> e.name, inp |-> inp, out |-> r.coord, mat |-> r.mat]

\* The edges of the path applied in order; every intermediate frame object takes
\* the attributes (obstime) of the target frame object.
RECURSIVE ApplyPath(_, _, _, _)
ApplyPath(c, path, toframe, trace) ==
    IF path = <<>>
    THEN [outcome |-> "ok", trace |-> trace, result |-> c]
    ELSE LET e == Head(path)
             r == ApplyEdge(e, c, FrameObj(e.dst, toframe.obstime))
         IN  IF r.err # ""
             THEN [outcome |-> r.err, trace |-> trace, result |-> NoCoord]
             ELSE ApplyPath(r.coord, Tail(path), toframe, Append(trace, Step(e, c, r)))

\* Variant of transform_to: with no path the coordinate is relabelled as the target.
transform_to_relabel(edges, c, toframe) ==
    LET path == find_shortest_path(edges, c.frame, toframe.frame)
    IN  IF path = <<>>
        THEN [outcome |-> "ok", trace |-> <<>>,
              result |-> realize_frame(toframe, c.pos, c.vel)]
        ELSE ApplyPath(c, path, toframe, <<>>)

\* coord.transform_to(toframe)
transform_to(edges, c, toframe) ==
    LET path == find_shortest_path(edges, c.frame, toframe.frame)
    IN  IF path = <<>>
        THEN [outcome |-> "NoPathError", trace |-> <<>>, result |-> NoCoord]
        ELSE ApplyPath(c, path, toframe, <<>>)

---------------------------------------------------------------------------
(* State *)

VARIABLES
    graph,   \* the edges registered on frame_transform_graph
    coord,   \* the coordinate object the caller holds
    last,    \* the last transform_to call: input, target, outcome, edges applied, result
    prev,    \* the transform_to call before it
    calls    \* transform_to calls made since the coordinate was constructed

vars == <<graph, coord, last, prev, calls>>

NoCall == [inp |-> NoCoord, toframe |-> FrameObj("none", 0), outcome |-> "none",
           trace |-> <<>>, result |-> NoCoord]

Init ==
    /\ graph = {}
    /\ coord = NoCoord
    /\ last = NoCall
    /\ prev = NoCall
    /\ calls = 0

\* Running the first code cell: class TIRS and the TIRS <-> ITRS decorators.
RunTirsCell ==
    /\ ~(TirsCellEdges \subseteq graph)
    /\ graph' = graph \cup TirsCellEdges
    /\ UNCHANGED <<coord, last, prev, calls>>

\* Running the second code cell: class TEME and the TEME <-> TIRS decorators
\* (the decorators name TIRS, so the first cell has run).
RunTemeCell ==
    /\ TirsCellEdges \subseteq graph
    /\ ~(TemeCellEdges \subseteq graph)
    /\ graph' = graph \cup TemeCellEdges
    /\ UNCHANGED <<coord, last, prev, calls>>

\* Constructing the coordinate: TEME(coords, obstime=...), likewise TIRS and ITRS.
NewCoord ==
    \E f \in DefinedFrames(graph), t \in Instants, r \in PosSet, v \in VelSet, a \in AccSet :
        /\ coord = NoCoord
        /\ coord' = [frame |-> f, obstime |-> t, pos |-> r, vel |-> v, acc |-> a]
        /\ last' = NoCall
        /\ prev' = NoCall
        /\ calls' = 0
        /\ UNCHANGED graph

\* coord = coord.transform_to(F(obstime=t)); on an exception the caller keeps the
\* coordinate it had.
TransformTo ==
    \E f \in DefinedFrames(graph), t \in Instants :
        /\ coord # NoCoord
        /\ f # coord.frame
        /\ calls < MaxCalls
        /\ LET toframe == FrameObj(f, t)
               res == transform_to(graph, coord, toframe)
           IN  /\ last' = [inp |-> coord, toframe |-> toframe, outcome |-> res.outcome,
                           trace |-> res.trace, result |-> res.result]
               /\ coord' = IF res.outcome = "ok" THEN res.result ELSE coord
        /\ prev' = last
        /\ calls' = calls + 1
        /\ UNCHANGED graph

Next == RunTirsCell \/ RunTemeCell \/ NewCoord \/ TransformTo

\* The instants of the table, and one before it.
AllInstants == {BeforeIers} \cup Instants

\* Constructing a coordinate whose obstime may lie before the table.
NewCoordAnyInstant ==
    \E f \in DefinedFrames(graph), t \in AllInstants, r \in PosSet, v \in VelSet :
        /\ coord = NoCoord
        /\ coord' = [frame |-> f, obstime |-> t, pos |-> r, vel |-> v, acc |-> NoVec]
        /\ last' = NoCall
        /\ prev' = NoCall
        /\ calls' = 0
        /\ UNCHANGED graph

\* coord = coord.transform_to(F(obstime=t)), t before the table or in it.
TransformToAnyInstant ==
    \E f \in DefinedFrames(graph), t \in AllInstants :
        /\ coord # NoCoord
        /\ f # coord.frame
        /\ calls < MaxOldCalls
        /\ LET toframe == FrameObj(f, t)
               res == transform_to(graph, coord, toframe)
           IN  /\ last' = [inp |-> coord, toframe |-> toframe, outcome |-> res.outcome,
                           trace |-> res.trace, result |-> res.result]
               /\ coord' = IF res.outcome = "ok" THEN res.result ELSE coord
        /\ prev' = last
        /\ calls' = calls + 1
        /\ UNCHANGED graph

---------------------------------------------------------------------------
(* The frame transform graph as a registry: every decorator is one registration,
   made at start-up, before any coordinate exists *)

\* Largest number of transform_to calls made on one coordinate of the registry runs.
MaxGraphCalls == 2

\* The four edges the decorators of the notebook can register.
AllEdges == TirsCellEdges \cup TemeCellEdges

\* Variant of Register: the graph also derives the edge of the opposite direction.
Register_auto_invert(e) ==
    /\ coord = NoCoord
    /\ e \notin graph
    /\ graph' = graph \cup {e} \cup {x \in AllEdges : x.src = e.dst /\ x.dst = e.src}
    /\ UNCHANGED <<coord, last, prev, calls>>

\* frame_transform_graph.transform(kind, fromsys, tosys)(func): one directed edge.
Register(e) ==
    /\ coord = NoCoord
    /\ e \notin graph
    /\ graph' = graph \cup {e}
    /\ UNCHANGED <<coord, last, prev, calls>>

RegisterEdge == \E e \in AllEdges : Register(e)

\* Constructing a coordinate in any of the three frame classes.
GraphNewCoord ==
    \E f \in Frames, t \in Instants :
        /\ coord = NoCoord
        /\ coord' = [frame |-> f, obstime |-> t, pos |-> <<1, 2, 3>>,
                     vel |-> <<3, -1, 2>>, acc |-> NoVec]
        /\ UNCHANGED <<graph, last, prev, calls>>

\* Variant of GraphTransform: a call that finds no path drops the registered edges.
GraphTransform_drops_edges ==
    \E f \in Frames, t \in Instants :
        /\ coord # NoCoord
        /\ f # coord.frame
        /\ calls < MaxGraphCalls
        /\ LET toframe == FrameObj(f, t)
               res == transform_to(graph, coord, toframe)
           IN  /\ last' = [inp |-> coord, toframe |-> toframe, outcome |-> res.outcome,
                           trace |-> res.trace, result |-> res.result]
               /\ coord' = IF res.outcome = "ok" THEN res.result ELSE coord
               /\ graph' = IF res.outcome = "NoPathError" THEN {} ELSE graph
        /\ prev' = last
        /\ calls' = calls + 1

\* coord = coord.transform_to(F(obstime=t)) on whatever edges are registered.
GraphTransform ==
    \E f \in Frames, t \in Instants :
        /\ coord # NoCoord
        /\ f # coord.frame
        /\ calls < MaxGraphCalls
        /\ LET toframe == FrameObj(f, t)
               res == transform_to(graph, coord, toframe)
           IN  /\ last' = [inp |-> coord, toframe |-> toframe, outcome |-> res.outcome,
                           trace |-> res.trace, result |-> res.result]
               /\ coord' = IF res.outcome = "ok" THEN res.result ELSE coord
        /\ prev' = last
        /\ calls' = calls + 1
        /\ UNCHANGED graph

---------------------------------------------------------------------------
(* The coordinate objects of a session: the propagator's output, the coordinate
   built from it, and the objects that transform_to calls take and return *)

VARIABLES
    sgp4_out,  \* e, r_teme, v_teme as sat.sgp4(jd, frac) returned them
    objs,      \* the coordinate objects that exist, in order of creation
    log        \* the transform_to calls made: input object, target, outcome, result

objvars == <<sgp4_out, objs, log>>

\* Largest number of transform_to calls of a session.
MaxObjCalls == 3

\* output_time of the notebook: the instant of the propagated state.
output_time == 1

\* Error codes of the propagator: zero is success, anything else a failure.
ErrCodes == {0, 1}

NoOut == [e |-> -1, r |-> NoVec, v |-> NoVec]

ObjInit == sgp4_out = NoOut /\ objs = <<>> /\ log = <<>>

\* e, r_teme, v_teme = sat.sgp4(jd, frac): the three values come back whatever
\* the error code is.
Propagate ==
    \E e \in ErrCodes :
        /\ graph = AllEdges
        /\ sgp4_out = NoOut
        /\ objs = <<>>
        /\ sgp4_out' = [e |-> e, r |-> <<1, 2, 3>>, v |-> <<3, -1, 2>>]
        /\ UNCHANGED <<objs, log>>

\* coords = CartesianRepresentation(r_teme).with_differentials(v_teme);
\* coord_teme = TEME(coords, obstime=output_time): e is not looked at.
WrapTeme ==
    /\ sgp4_out # NoOut
    /\ objs = <<>>
    /\ objs' = <<[frame |-> "TEME", obstime |-> output_time, pos |-> sgp4_out.r,
                  vel |-> sgp4_out.v, acc |-> NoVec]>>
    /\ UNCHANGED <<sgp4_out, log>>

\* A coordinate built from a position alone, without the propagator.
ObjNewCoord ==
    /\ graph = AllEdges
    /\ sgp4_out = NoOut
    /\ objs = <<>>
    /\ objs' = <<[frame |-> "TEME", obstime |-> output_time, pos |-> <<1, 2, 3>>,
                  vel |-> NoVec, acc |-> NoVec]>>
    /\ UNCHANGED <<sgp4_out, log>>

\* The objects a call is made on: the first coordinate or the latest result.
Held == {1, Len(objs)}

Call(i, toframe, res) ==
    [idx |-> i, inp |-> objs[i], toframe |-> toframe, outcome |-> res.outcome,
     result |-> res.result]

\* Variant of ObjTransform: the result is written over the input object.
ObjTransform_in_place ==
    \E i \in Held, f \in Frames, t \in Instants :
        /\ objs # <<>>
        /\ f # objs[i].frame
        /\ Len(log) < MaxObjCalls
        /\ LET toframe == FrameObj(f, t)
               res == transform_to(graph, objs[i], toframe)
           IN  /\ log' = Append(log, Call(i, toframe, res))
               /\ objs' = IF res.outcome = "ok"
                          THEN [objs EXCEPT ![i] = res.result] ELSE objs
        /\ UNCHANGED sgp4_out

\* Variant of ObjTransform: Earth orientation is looked up at the instant of the
\* call made before, kept from one call to the next.
ObjTransform_stale_instant ==
    \E i \in Held, f \in Frames, t \in Instants :
        /\ objs # <<>>
        /\ f # objs[i].frame
        /\ Len(log) < MaxObjCalls
        /\ LET toframe == FrameObj(f, t)
               used == IF log = <<>> THEN toframe
                       ELSE FrameObj(f, log[Len(log)].toframe.obstime)
               res == transform_to(graph, objs[i], used)
           IN  /\ log' = Append(log, Call(i, toframe, res))
               /\ objs' = IF res.outcome = "ok" THEN Append(objs, res.result) ELSE objs
        /\ UNCHANGED sgp4_out

\* new = objs[i].transform_to(F(obstime=t)): the result is a new object.
ObjTransform ==
    \E i \in Held, f \in Frames, t \in Instants :
        /\ objs # <<>>
        /\ f # objs[i].frame
        /\ Len(log) < MaxObjCalls
        /\ LET toframe == FrameObj(f, t)
               res == transform_to(graph, objs[i], toframe)
           IN  /\ log' = Append(log, Call(i, toframe, res))
               /\ objs' = IF res.outcome = "ok" THEN Append(objs, res.result) ELSE objs
        /\ UNCHANGED sgp4_out

---------------------------------------------------------------------------
(* The event engine: Sun altitude samples, the Akima interpolant fitted to them,
   its derivative, and the two loops that label their roots.

   Times are whole numbers of grid steps, GridSteps to a sampling step; altitudes
   are whole degrees. Slopes and polynomial coefficients are exact fractions. *)

\* Number of altitude samples (duration / dt of the notebook).
NumSamples == 4

\* Number of pairs of altitude magnitudes (low, high) the samples are drawn from.
NumPairs == 2

\* Samples taken after the first day.
ExtraSamples == 2

LevelPairs == <<<<3, 35>>, <<1, 9>>, <<2, 5>>>>

Altitudes(k) ==
    {LevelPairs[k][1], LevelPairs[k][2], -LevelPairs[k][1], -LevelPairs[k][2]}

\* Grid steps in one sampling step dt.
GridSteps == 4

Abs(a) == IF a < 0 THEN -a ELSE a

Sign(a) == IF a > 0 THEN 1 ELSE IF a < 0 THEN -1 ELSE 0

\* The elements of a sequence, each one computed once.
RECURSIVE SeqFrom(_, _)
SeqFrom(f, i) == IF i > Len(f) THEN <<>> ELSE <<f[i]>> \o SeqFrom(f, i + 1)

\* t__float_list: the sample times, dt apart.
SampleTimes(n) == SeqFrom([i \in 1..n |-> GridSteps * (i - 1)], 1)

\* Akima1DInterpolator.__init__: the slopes m between samples (per dt), extended
\* by two at each end; m[2 + i] lies between samples i and i + 1.
AkimaM(y) ==
    LET n == Len(y)
        d(i) == y[i + 1] - y[i]
        m2 == d(1)
        m3 == d(2)
        m1 == 2 * m2 - m3
        m0 == 2 * m1 - m2
        ma == d(n - 1)
        mb == d(n - 2)
        mc == 2 * ma - mb
        md == 2 * mc - ma
    IN  SeqFrom([j \in 1..(n + 3) |->
                    IF j = 1 THEN m0
                    ELSE IF j = 2 THEN m1
                    ELSE IF j = n + 2 THEN mc
                    ELSE IF j = n + 3 THEN md
                    ELSE d(j - 2)], 1)

\* Akima1DInterpolator.__init__: the slope t at sample i as a fraction <<num, den>>,
\* the neighbouring slopes weighted by f1, f2; their mean where f1 + f2 = 0.
AkimaT(y) ==
    LET m == AkimaM(y)
    IN  SeqFrom([i \in 1..Len(y) |->
                    LET f1 == Abs(m[i + 3] - m[i + 2])
                        f2 == Abs(m[i + 1] - m[i])
                    IN  IF f1 + f2 = 0
                        THEN <<m[i + 3] + m[i], 2>>
                        ELSE <<f1 * m[i + 1] + f2 * m[i + 2], f1 + f2>>], 1)

\* A piecewise polynomial (scipy PPoly, extrapolate=False): breakpoints x and, for
\* each interval, the coefficients of 1, u, u^2, u^3 (u in units of dt from the
\* left breakpoint) over a common denominator.
Piece(y, t, i) ==
    LET D == t[i][2] * t[i + 1][2]
        a == t[i][1] * t[i + 1][2]
        b == t[i + 1][1] * t[i][2]
        d == (y[i + 1] - y[i]) * D
    IN  [c |-> <<y[i] * D, a, 3 * d - 2 * a - b, a + b - 2 * d>>, den |-> D]

\* interpolate.Akima1DInterpolator(t__float_list, alt)
Akima1DInterpolator(x, y) ==
    LET t == AkimaT(y)
    IN  [x |-> x, p |-> SeqFrom([i \in 1..(Len(y) - 1) |-> Piece(y, t, i)], 1)]

\* PPoly.derivative(): a new piecewise polynomial, one degree lower.
derivative(pp) ==
    [x |-> pp.x,
     p |-> SeqFrom([i \in 1..Len(pp.p) |->
                      [c |-> <<pp.p[i].c[2], 2 * pp.p[i].c[3], 3 * pp.p[i].c[4], 0>>,
                       den |-> pp.p[i].den]], 1)]

\* The interval a time of the span lies in.
IntervalOf(pp, g) ==
    IF g = pp.x[Len(pp.x)] THEN Len(pp.p) ELSE (g \div GridSteps) + 1

\* The polynomial of interval i at time g, as a fraction <<num, den>> with den > 0.
EvaluateIn(pp, i, g) ==
    LET k == g - pp.x[i]
        c == pp.p[i].c
        Q == GridSteps
    IN  <<c[1] * Q * Q * Q + c[2] * k * Q * Q + c[3] * k * k * Q + c[4] * k * k * k,
          pp.p[i].den * Q * Q * Q>>

\* pp(g) for g inside the span.
Evaluate(pp, g) == EvaluateIn(pp, IntervalOf(pp, g), g)

SignAt(pp, g) == Sign(Evaluate(pp, g)[1])

Span(pp) == pp.x[1]..pp.x[Len(pp.x)]

\* Not-a-number, written as the fraction 0/0.
NaN == <<0, 0>>

\* pp(g) as the interpolator answers it: built without extrapolation, it answers a
\* time outside the samples with not-a-number and raises nothing.
Call_PPoly(pp, g) == IF g \in Span(pp) THEN Evaluate(pp, g) ELSE NaN

RootSet(pp) == {g \in Span(pp) : SignAt(pp, g) = 0}

RECURSIVE Sorted(_)
Sorted(S) ==
    IF S = {} THEN <<>>
    ELSE LET lo == CHOOSE a \in S : \A b \in S : a <= b
         IN  <<lo>> \o Sorted(S \ {lo})

RECURSIVE Reverse(_)
Reverse(s) == IF s = <<>> THEN <<>> ELSE Append(Reverse(Tail(s)), Head(s))

\* Variant of roots: the zeros come latest first.
roots_latest_first(pp) == Reverse(Sorted(RootSet(pp)))

\* PPoly.roots(): the zeros inside the span, in increasing order.
roots(pp) == Sorted(RootSet(pp))

\* Between the grid times g and g + 1 the polynomial of the interval neither
\* changes sign nor vanishes at both ends.
KeepsSign(pp, g) ==
    LET i == IntervalOf(pp, g)
        l == Sign(EvaluateIn(pp, i, g)[1])
        r == Sign(EvaluateIn(pp, i, g + 1)[1])
    IN  l * r >= 0 /\ ~(l = 0 /\ r = 0)

Monotonic(pp, g) ==
    LET i == IntervalOf(pp, g)
    IN  Sign(EvaluateIn(pp, i, g)[1]) * Sign(EvaluateIn(pp, i, g + 1)[1]) >= 0

\* The curvature keeps its sign on the cell, so the slope is monotonic and has no
\* zero inside it, so the curve is monotonic and has no zero inside it.
NoZeroBetween(pp, d1, d2, g) ==
    /\ KeepsSign(pp, g)
    /\ KeepsSign(d1, g)
    /\ Monotonic(d2, g)

\* The sample lists whose interpolant has all its zeros, and its slope all of
\* its zeros, at grid times.
OnGrid(y) ==
    LET pp == Akima1DInterpolator(SampleTimes(Len(y)), y)
        d1 == derivative(pp)
        d2 == derivative(d1)
    IN  \A g \in pp.x[1]..(pp.x[Len(pp.x)] - 1) : NoZeroBetween(pp, d1, d2, g)

DaySamples ==
    UNION {{y \in [1..NumSamples -> Altitudes(k)] : OnGrid(y)} : k \in 1..NumPairs}

\* A duration of more than one day: the samples of the day, then ExtraSamples more
\* that repeat them from the start.
LongerRun(y) ==
    SeqFrom([i \in 1..(NumSamples + ExtraSamples) |-> y[((i - 1) % NumSamples) + 1]], 1)

LongerSamples ==
    UNION {{y \in {LongerRun(d) : d \in [1..NumSamples -> Altitudes(k)]} : OnGrid(y)} :
           k \in 1..NumPairs}

SampleLists == DaySamples \cup LongerSamples

\* The time lists handed to the interpolator: dt apart, or with the second time
\* before the first, or with the first time repeated, or latest first.
TimeLists(n) ==
    LET x == SampleTimes(n)
    IN  {x, [x EXCEPT ![2] = x[1] - 1], [x EXCEPT ![2] = x[1]], Reverse(x)}

StrictlyIncreasing(x) == \A i \in 1..(Len(x) - 1) : x[i] < x[i + 1]

\* The check the constructor makes on its time samples before it fits anything.
prepare_input(x, y) ==
    IF StrictlyIncreasing(x) THEN "" ELSE "NonMonotonicSamplesError"

Unbound == <<>>

VARIABLES
    pc,                          \* the cell of the notebook that runs next
    interp_time,
    sun_interp_alt,
    t__float_list,
    alt,                         \* sun_alt_az_list.alt.deg
    raised,                      \* the error that ended the run, "" if none
    sun_alt_interpolator,
    sun_interpolator_deriv_alt,
    events,                      \* rise_set_events or min_max_events of the running loop
    idx,                         \* events handled by the running loop
    sun_rise_time,
    sun_set_time,
    printed,                     \* the labels printed, with the event times
    plot                         \* outcome of the marker cell

evvars == <<pc, t__float_list, alt, raised, sun_alt_interpolator, sun_interpolator_deriv_alt,
                   interp_time, sun_interp_alt, events, idx,
            sun_rise_time, sun_set_time, printed, plot>>

NoPPoly == [x |-> <<>>, p |-> <<>>]

EvInit ==
    /\ pc = "sample"
    /\ t__float_list = <<>>
    /\ alt = <<>>
    /\ raised = ""
    /\ sun_alt_interpolator = NoPPoly
    /\ sun_interpolator_deriv_alt = NoPPoly
    /\ interp_time = Unbound
    /\ sun_interp_alt = Unbound
    /\ events = <<>>
    /\ idx = 0
    /\ sun_rise_time = Unbound
    /\ sun_set_time = Unbound
    /\ printed = <<>>
    /\ plot = "none"

\* sun_alt_az_list = get_sun(obs_times).transform_to(alt_az_frames)
SampleSun ==
    /\ pc = "sample"
    /\ \E y \in SampleLists : alt' = y
    /\ \E x \in TimeLists(Len(alt')) : t__float_list' = x
    /\ pc' = "fit"
    /\ UNCHANGED <<raised, sun_alt_interpolator, sun_interpolator_deriv_alt,
                   interp_time, sun_interp_alt, events, idx,
                   sun_rise_time, sun_set_time, printed, plot>>

\* Variant of FitInterpolators: the time samples are not looked at.
FitInterpolators_unchecked ==
    /\ pc = "fit"
    /\ sun_alt_interpolator' = Akima1DInterpolator(t__float_list, alt)
    /\ sun_interpolator_deriv_alt' = derivative(sun_alt_interpolator')
    /\ pc' = "evaluate"
    /\ UNCHANGED <<t__float_list, alt, raised, interp_time, sun_interp_alt, events, idx,
                   sun_rise_time, sun_set_time, printed, plot>>

\* The interpolator cell: a constructor that raises ends the run, with neither
\* interpolator assigned.
FitInterpolators ==
    /\ pc = "fit"
    /\ IF prepare_input(t__float_list, alt) # ""
       THEN /\ raised' = prepare_input(t__float_list, alt)
            /\ pc' = "failed"
            /\ UNCHANGED <<sun_alt_interpolator, sun_interpolator_deriv_alt>>
       ELSE /\ sun_alt_interpolator' = Akima1DInterpolator(t__float_list, alt)
            /\ sun_interpolator_deriv_alt' = derivative(sun_alt_interpolator')
            /\ pc' = "evaluate"
            /\ UNCHANGED raised
    /\ UNCHANGED <<t__float_list, alt, interp_time, sun_interp_alt, events, idx,
                   sun_rise_time, sun_set_time, printed, plot>>

\* The times the interpolated altitude is asked for: the first and the last sample
\* time, a time between two samples, and the grid times just outside the samples.
InterpTimes(pp) ==
    LET lo == pp.x[1]
        hi == pp.x[Len(pp.x)]
    IN  {lo - 1, lo, lo + 1, hi, hi + 1}

\* The comparison cell: the interpolated altitude at interp_time is computed and
\* printed, whatever the call returned.
EvaluateSample ==
    /\ pc = "evaluate"
    /\ \E t \in InterpTimes(sun_alt_interpolator) :
          /\ interp_time' = <<t>>
          /\ sun_interp_alt' = Call_PPoly(sun_alt_interpolator, t)
    /\ pc' = "rise_set"
    /\ UNCHANGED <<t__float_list, alt, raised, sun_alt_interpolator,
                   sun_interpolator_deriv_alt, events, idx,
                   sun_rise_time, sun_set_time, printed, plot>>

\* rise_set_events = sun_alt_interpolator.roots()
RiseSetRoots ==
    /\ pc = "rise_set"
    /\ events' = roots(sun_alt_interpolator)
    /\ idx' = 0
    /\ pc' = "rise_set_loop"
    /\ UNCHANGED <<t__float_list, alt, raised, sun_alt_interpolator, sun_interpolator_deriv_alt,
                   interp_time, sun_interp_alt,
                   sun_rise_time, sun_set_time, printed, plot>>

\* Variant of RiseSetStep: the sign is taken of the altitude interpolant.
RiseSetStep_value_sign ==
    /\ pc = "rise_set_loop"
    /\ idx < Len(events)
    /\ LET event_time == events[idx + 1]
           deriv == SignAt(sun_alt_interpolator, event_time)
       IN  IF deriv > 0
           THEN /\ sun_rise_time' = <<event_time>>
                /\ printed' = Append(printed, [label |-> "Sunrise", time |-> event_time])
                /\ UNCHANGED sun_set_time
           ELSE /\ sun_set_time' = <<event_time>>
                /\ printed' = Append(printed, [label |-> "Sunset", time |-> event_time])
                /\ UNCHANGED sun_rise_time
    /\ idx' = idx + 1
    /\ UNCHANGED <<pc, t__float_list, alt, raised, sun_alt_interpolator, sun_interpolator_deriv_alt,
                   interp_time, sun_interp_alt, events, plot>>

\* Variant of RiseSetStep: a time that is already set is kept.
RiseSetStep_keep_first ==
    /\ pc = "rise_set_loop"
    /\ idx < Len(events)
    /\ LET event_time == events[idx + 1]
           deriv == SignAt(sun_interpolator_deriv_alt, event_time)
       IN  IF deriv > 0
           THEN /\ sun_rise_time' =
                     IF sun_rise_time = Unbound THEN <<event_time>> ELSE sun_rise_time
                /\ printed' = Append(printed, [label |-> "Sunrise", time |-> event_time])
                /\ UNCHANGED sun_set_time
           ELSE /\ sun_set_time' =
                     IF sun_set_time = Unbound THEN <<event_time>> ELSE sun_set_time
                /\ printed' = Append(printed, [label |-> "Sunset", time |-> event_time])
                /\ UNCHANGED sun_rise_time
    /\ idx' = idx + 1
    /\ UNCHANGED <<pc, t__float_list, alt, raised, sun_alt_interpolator, sun_interpolator_deriv_alt,
                   interp_time, sun_interp_alt, events, plot>>

\* Variant of RiseSetStep: a zero derivative counts as rising.
RiseSetStep_zero_rises ==
    /\ pc = "rise_set_loop"
    /\ idx < Len(events)
    /\ LET event_time == events[idx + 1]
           deriv == SignAt(sun_interpolator_deriv_alt, event_time)
       IN  IF deriv >= 0
           THEN /\ sun_rise_time' = <<event_time>>
                /\ printed' = Append(printed, [label |-> "Sunrise", time |-> event_time])
                /\ UNCHANGED sun_set_time
           ELSE /\ sun_set_time' = <<event_time>>
                /\ printed' = Append(printed, [label |-> "Sunset", time |-> event_time])
                /\ UNCHANGED sun_rise_time
    /\ idx' = idx + 1
    /\ UNCHANGED <<pc, t__float_list, alt, raised, sun_alt_interpolator, sun_interpolator_deriv_alt,
                   interp_time, sun_interp_alt, events, plot>>

\* One pass of the body of: for event_time in rise_set_events
RiseSetStep ==
    /\ pc = "rise_set_loop"
    /\ idx < Len(events)
    /\ LET event_time == events[idx + 1]
           deriv == SignAt(sun_interpolator_deriv_alt, event_time)
       IN  IF deriv > 0
           THEN /\ sun_rise_time' = <<event_time>>
                /\ printed' = Append(printed, [label |-> "Sunrise", time |-> event_time])
                /\ UNCHANGED sun_set_time
           ELSE /\ sun_set_time' = <<event_time>>
                /\ printed' = Append(printed, [label |-> "Sunset", time |-> event_time])
                /\ UNCHANGED sun_rise_time
    /\ idx' = idx + 1
    /\ UNCHANGED <<pc, t__float_list, alt, raised, sun_alt_interpolator, sun_interpolator_deriv_alt,
                   interp_time, sun_interp_alt, events, plot>>

\* The rise/set loop is exhausted; the next cell runs.
RiseSetDone ==
    /\ pc = "rise_set_loop"
    /\ idx = Len(events)
    /\ pc' = "min_max"
    /\ UNCHANGED <<t__float_list, alt, raised, sun_alt_interpolator, sun_interpolator_deriv_alt,
                   interp_time, sun_interp_alt, events, idx,
                   sun_rise_time, sun_set_time, printed, plot>>

\* min_max_events = sun_interpolator_deriv_alt.roots()
MinMaxRoots ==
    /\ pc = "min_max"
    /\ events' = roots(sun_interpolator_deriv_alt)
    /\ idx' = 0
    /\ pc' = "min_max_loop"
    /\ UNCHANGED <<t__float_list, alt, raised, sun_alt_interpolator, sun_interpolator_deriv_alt,
                   interp_time, sun_interp_alt,
                   sun_rise_time, sun_set_time, printed, plot>>

\* Variant of MinMaxStep: the sign is taken of the derivative interpolant.
MinMaxStep_deriv_sign ==
    /\ pc = "min_max_loop"
    /\ idx < Len(events)
    /\ LET event_time == events[idx + 1]
           pos == SignAt(sun_interpolator_deriv_alt, event_time)
       IN  printed' = Append(printed,
                [label |-> IF pos > 0 THEN "Sun highest" ELSE "Sun lowest",
                 time |-> event_time])
    /\ idx' = idx + 1
    /\ UNCHANGED <<pc, t__float_list, alt, raised, sun_alt_interpolator, sun_interpolator_deriv_alt,
                   interp_time, sun_interp_alt, events,
                   sun_rise_time, sun_set_time, plot>>

\* Variant of MinMaxStep: the label follows the curvature at the event.
MinMaxStep_curvature ==
    /\ pc = "min_max_loop"
    /\ idx < Len(events)
    /\ LET event_time == events[idx + 1]
           pos == -SignAt(derivative(sun_interpolator_deriv_alt), event_time)
       IN  printed' = Append(printed,
                [label |-> IF pos > 0 THEN "Sun highest" ELSE "Sun lowest",
                 time |-> event_time])
    /\ idx' = idx + 1
    /\ UNCHANGED <<pc, t__float_list, alt, raised, sun_alt_interpolator, sun_interpolator_deriv_alt,
                   interp_time, sun_interp_alt, events,
                   sun_rise_time, sun_set_time, plot>>

\* Variant of MinMaxStep: a zero altitude counts as highest.
MinMaxStep_zero_highest ==
    /\ pc = "min_max_loop"
    /\ idx < Len(events)
    /\ LET event_time == events[idx + 1]
           pos == SignAt(sun_alt_interpolator, event_time)
       IN  printed' = Append(printed,
                [label |-> IF pos >= 0 THEN "Sun highest" ELSE "Sun lowest",
                 time |-> event_time])
    /\ idx' = idx + 1
    /\ UNCHANGED <<pc, t__float_list, alt, raised, sun_alt_interpolator, sun_interpolator_deriv_alt,
                   interp_time, sun_interp_alt, events,
                   sun_rise_time, sun_set_time, plot>>

\* One pass of the body of: for event_time in min_max_events
MinMaxStep ==
    /\ pc = "min_max_loop"
    /\ idx < Len(events)
    /\ LET event_time == events[idx + 1]
           pos == SignAt(sun_alt_interpolator, event_time)
       IN  printed' = Append(printed,
                [label |-> IF pos > 0 THEN "Sun highest" ELSE "Sun lowest",
                 time |-> event_time])
    /\ idx' = idx + 1
    /\ UNCHANGED <<pc, t__float_list, alt, raised, sun_alt_interpolator, sun_interpolator_deriv_alt,
                   interp_time, sun_interp_alt, events,
                   sun_rise_time, sun_set_time, plot>>

\* The max/min loop is exhausted; the plot cell runs.
MinMaxDone ==
    /\ pc = "min_max_loop"
    /\ idx = Len(events)
    /\ pc' = "plot"
    /\ UNCHANGED <<t__float_list, alt, raised, sun_alt_interpolator, sun_interpolator_deriv_alt,
                   interp_time, sun_interp_alt, events, idx,
                   sun_rise_time, sun_set_time, printed, plot>>

\* Variant of PlotMarkers: only the sunrise marker is drawn.
PlotMarkers_rise_only ==
    /\ pc = "plot"
    /\ plot' = IF sun_rise_time = Unbound THEN "NameError" ELSE "ok"
    /\ pc' = "done"
    /\ UNCHANGED <<t__float_list, alt, raised, sun_alt_interpolator, sun_interpolator_deriv_alt,
                   interp_time, sun_interp_alt, events, idx,
                   sun_rise_time, sun_set_time, printed>>

\* plt.axvline(sun_rise_time...), plt.axvline(sun_set_time...): a name that was
\* never assigned raises NameError.
PlotMarkers ==
    /\ pc = "plot"
    /\ plot' = IF sun_rise_time = Unbound \/ sun_set_time = Unbound
               THEN "NameError" ELSE "ok"
    /\ pc' = "done"
    /\ UNCHANGED <<t__float_list, alt, raised, sun_alt_interpolator, sun_interpolator_deriv_alt,
                   interp_time, sun_interp_alt, events, idx,
                   sun_rise_time, sun_set_time, printed>>

---------------------------------------------------------------------------
(* Workers transforming independent states at the same time *)

\* Number of workers.
NumWorkers == 2

Workers == 1..NumWorkers

VARIABLES
    wjob,                        \* per worker: the state it was given and the target
    wpc,                         \* per worker: "idle", "run" or "done"
    wcur,                        \* per worker: the coordinate it has reached
    wpath,                       \* per worker: the edges it has still to apply
    wres,                        \* per worker: what its transform_to gave
    wmixed                       \* per worker: it took a step while another was running

wkvars == <<wjob, wpc, wcur, wpath, wres, wmixed>>

NoJob == [inp |-> NoCoord, toframe |-> FrameObj("none", 0)]

NoRes == [outcome |-> "none", result |-> NoCoord]

WkInit ==
    /\ wjob = [w \in Workers |-> NoJob]
    /\ wpc = [w \in Workers |-> "idle"]
    /\ wcur = [w \in Workers |-> NoCoord]
    /\ wpath = [w \in Workers |-> <<>>]
    /\ wres = [w \in Workers |-> NoRes]
    /\ wmixed = [w \in Workers |-> FALSE]

\* The state a worker is given: its own TEME state at output_time, with or without
\* velocity.
WorkerState(w, v) ==
    [frame |-> "TEME", obstime |-> output_time, pos |-> <<w, 2, 3>>, vel |-> v, acc |-> NoVec]

\* A worker calls transform_to on its state, once both cells have run: the path is
\* looked up in the registered edges.
WorkerStart(w) ==
    \E f \in {"TIRS", "ITRS"}, t \in Instants, v \in {NoVec, <<3, -1, 2>>} :
        /\ wpc[w] = "idle"
        /\ TirsCellEdges \cup TemeCellEdges \subseteq graph
        /\ wjob' = [wjob EXCEPT ![w] = [inp |-> WorkerState(w, v), toframe |-> FrameObj(f, t)]]
        /\ wcur' = [wcur EXCEPT ![w] = WorkerState(w, v)]
        /\ wpath' = [wpath EXCEPT ![w] = find_shortest_path(graph, "TEME", f)]
        /\ wpc' = [wpc EXCEPT ![w] = "run"]
        /\ UNCHANGED <<wres, wmixed>>

\* Variant of WorkerEdge: the coordinate reached is kept in one place all workers use.
WorkerEdge_shared_buffer(w) ==
    /\ wpc[w] = "run"
    /\ LET e == Head(wpath[w])
           toframe == wjob[w].toframe
           r == ApplyEdge(e, wcur[w], FrameObj(e.dst, toframe.obstime))
           last_edge == Len(wpath[w]) = 1
       IN  IF r.err # ""
           THEN /\ wres' = [wres EXCEPT ![w] = [outcome |-> r.err, result |-> NoCoord]]
                /\ wpc' = [wpc EXCEPT ![w] = "done"]
                /\ UNCHANGED <<wcur, wpath>>
           ELSE /\ wcur' = [v \in Workers |-> r.coord]
                /\ wpath' = [wpath EXCEPT ![w] = Tail(wpath[w])]
                /\ wpc' = [wpc EXCEPT ![w] = IF last_edge THEN "done" ELSE "run"]
                /\ wres' = IF last_edge
                           THEN [wres EXCEPT ![w] = [outcome |-> "ok", result |-> r.coord]]
                           ELSE wres
    /\ wmixed' = [wmixed EXCEPT ![w] = wmixed[w] \/ \E v \in Workers \ {w} : wpc[v] = "run"]
    /\ UNCHANGED wjob

\* A worker applies the next edge of its path to the coordinate it has reached; the
\* edge that raises ends the call, the last edge gives the result.
WorkerEdge(w) ==
    /\ wpc[w] = "run"
    /\ LET e == Head(wpath[w])
           toframe == wjob[w].toframe
           r == ApplyEdge(e, wcur[w], FrameObj(e.dst, toframe.obstime))
           last_edge == Len(wpath[w]) = 1
       IN  IF r.err # ""
           THEN /\ wres' = [wres EXCEPT ![w] = [outcome |-> r.err, result |-> NoCoord]]
                /\ wpc' = [wpc EXCEPT ![w] = "done"]
                /\ UNCHANGED <<wcur, wpath>>
           ELSE /\ wcur' = [wcur EXCEPT ![w] = r.coord]
                /\ wpath' = [wpath EXCEPT ![w] = Tail(wpath[w])]
                /\ wpc' = [wpc EXCEPT ![w] = IF last_edge THEN "done" ELSE "run"]
                /\ wres' = IF last_edge
                           THEN [wres EXCEPT ![w] = [outcome |-> "ok", result |-> r.coord]]
                           ELSE wres
    /\ wmixed' = [wmixed EXCEPT ![w] = wmixed[w] \/ \E v \in Workers \ {w} : wpc[v] = "run"]
    /\ UNCHANGED wjob

---------------------------------------------------------------------------
(* Specifications *)

allvars == <<vars, objvars, evvars, wkvars>>

InitAll == Init /\ ObjInit /\ EvInit /\ WkInit

\* Each specification runs one part of the program and leaves the rest alone.
NextFrames ==
    \/ RunTirsCell /\ UNCHANGED <<objvars, evvars, wkvars>>
    \/ RunTemeCell /\ UNCHANGED <<objvars, evvars, wkvars>>
    \/ NewCoord /\ UNCHANGED <<objvars, evvars, wkvars>>
    \/ TransformTo /\ UNCHANGED <<objvars, evvars, wkvars>>

NextRegistry ==
    \/ RegisterEdge /\ UNCHANGED <<objvars, evvars, wkvars>>
    \/ GraphNewCoord /\ UNCHANGED <<objvars, evvars, wkvars>>
    \/ GraphTransform /\ UNCHANGED <<objvars, evvars, wkvars>>

NextObjects ==
    \/ RunTirsCell /\ UNCHANGED <<objvars, evvars, wkvars>>
    \/ RunTemeCell /\ UNCHANGED <<objvars, evvars, wkvars>>
    \/ Propagate /\ UNCHANGED <<vars, evvars, wkvars>>
    \/ WrapTeme /\ UNCHANGED <<vars, evvars, wkvars>>
    \/ ObjNewCoord /\ UNCHANGED <<vars, evvars, wkvars>>
    \/ ObjTransform /\ UNCHANGED <<vars, evvars, wkvars>>

NextEvents ==
    \/ SampleSun /\ UNCHANGED <<vars, objvars, wkvars>>
    \/ FitInterpolators /\ UNCHANGED <<vars, objvars, wkvars>>
    \/ EvaluateSample /\ UNCHANGED <<vars, objvars, wkvars>>
    \/ RiseSetRoots /\ UNCHANGED <<vars, objvars, wkvars>>
    \/ RiseSetStep /\ UNCHANGED <<vars, objvars, wkvars>>
    \/ RiseSetDone /\ UNCHANGED <<vars, objvars, wkvars>>
    \/ MinMaxRoots /\ UNCHANGED <<vars, objvars, wkvars>>
    \/ MinMaxStep /\ UNCHANGED <<vars, objvars, wkvars>>
    \/ MinMaxDone /\ UNCHANGED <<vars, objvars, wkvars>>
    \/ PlotMarkers /\ UNCHANGED <<vars, objvars, wkvars>>

NextProvider ==
    \/ RunTirsCell /\ UNCHANGED <<objvars, evvars, wkvars>>
    \/ RunTemeCell /\ UNCHANGED <<objvars, evvars, wkvars>>
    \/ NewCoordAnyInstant /\ UNCHANGED <<objvars, evvars, wkvars>>
    \/ TransformToAnyInstant /\ UNCHANGED <<objvars, evvars, wkvars>>

NextWorkers ==
    \/ RunTirsCell /\ UNCHANGED <<objvars, evvars, wkvars>>
    \/ RunTemeCell /\ UNCHANGED <<objvars, evvars, wkvars>>
    \/ \E w \in Workers : WorkerStart(w) /\ UNCHANGED <<vars, objvars, evvars>>
    \/ \E w \in Workers : WorkerEdge(w) /\ UNCHANGED <<vars, objvars, evvars>>

Spec == InitAll /\ [][NextFrames]_allvars

SpecWorkers == InitAll /\ [][NextWorkers]_allvars

SpecProvider == InitAll /\ [][NextProvider]_allvars

SpecGraph == InitAll /\ [][NextRegistry]_allvars

SpecObjects == InitAll /\ [][NextObjects]_allvars

SpecEvents == InitAll /\ [][NextEvents]_allvars

---------------------------------------------------------------------------
(* Properties *)

\* The edges the last transform_to call applied, with the input and output of each.
LastSteps == {last.trace[i] : i \in DOMAIN last.trace}

EdgeNames(trace) == [i \in DOMAIN trace |-> trace[i].edge]

\* The last call went over exactly one registered edge and succeeded.
DirectCall(c) == c.outcome = "ok" /\ Len(c.trace) = 1

\* Two consecutive successful direct calls A -> B -> A, every coordinate and frame
\* object at one instant.
RoundTrip ==
    /\ DirectCall(prev)
    /\ DirectCall(last)
    /\ last.inp = prev.result
    /\ last.toframe.frame = prev.inp.frame
    /\ prev.toframe.obstime = prev.inp.obstime
    /\ last.toframe.obstime = prev.inp.obstime

\* C1: a state transformed over a directly registered edge A -> B and back over
\* B -> A, all at the same instant, comes back with the position, the velocity and
\* the instant it started with.
C1_RoundTripIdentity ==
    RoundTrip =>
        /\ last.result.frame = prev.inp.frame
        /\ last.result.obstime = prev.inp.obstime
        /\ last.result.pos = prev.inp.pos
        /\ last.result.vel = prev.inp.vel

C1_Witness ==
    /\ RoundTrip
    /\ prev.inp.frame = "TEME"
    /\ prev.toframe.frame = "TIRS"
    /\ prev.inp.pos = <<1, 2, 3>>
    /\ prev.inp.vel = <<3, -1, 2>>
    /\ _gmst82_angle(prev.inp.obstime) = 1
    /\ last.result.vel = <<3, -1, 2>>

C3_ReverseTirsToTeme ==
    \A s \in LastSteps :
        s.edge = "tirs_to_teme" =>
            LET c  == Cos4(_gmst82_angle(s.inp.obstime))
                sn == Sin4(_gmst82_angle(s.inp.obstime))
                W  == 7292115
                ux == s.inp.vel[1] - W * s.inp.pos[2]
                uy == s.inp.vel[2] + W * s.inp.pos[1]
                uz == s.inp.vel[3]
            IN  /\ s.out.pos = <<c * s.inp.pos[1] - sn * s.inp.pos[2],
                                 sn * s.inp.pos[1] + c * s.inp.pos[2],
                                 s.inp.pos[3]>>
                /\ s.out.vel = <<c * ux - sn * uy, sn * ux + c * uy, uz>>

C3_Witness ==
    \E s \in LastSteps :
        /\ s.edge = "tirs_to_teme"
        /\ s.inp.pos = <<1, 2, 3>>
        /\ s.inp.vel = <<3, -1, 2>>
        /\ _gmst82_angle(s.inp.obstime) = 1
        /\ s.out.pos = <<-2, 1, 3>>

\* A successful direct TEME -> TIRS call at the input's own instant.
ForwardCall ==
    /\ DirectCall(last)
    /\ last.trace[1].edge = "teme_to_tirs"
    /\ last.toframe.obstime = last.inp.obstime

\* The velocity a TEME state s comes back with after the forward edge F and the
\* reverse edge G, both at the instant of s.
RoundTripVel(F(_, _), G(_, _), s) ==
    G(F(s, FrameObj("TIRS", s.obstime)).coord, FrameObj("TEME", s.obstime)).coord.vel

OffAxis(r) == r[1] # 0 \/ r[2] # 0

\* C4 as stated: with the w x r term left out of the forward edge, the round trip
\* TEME -> TIRS -> TEME fails to reproduce the velocity of a state with velocity.
C4_GuardAsStated ==
    ForwardCall =>
        RoundTripVel(teme_to_tirs_no_wxr, tirs_to_teme, last.inp) # last.inp.vel

\* C4 (amended): the round trip reproduces the velocity; with the w x r term left
\* out of one direction only it fails to, for every state whose position is off the
\* z axis, and still reproduces it for a position on the axis, where w x r = 0.
C4_RegressionGuard ==
    ForwardCall =>
        LET s == last.inp
        IN  /\ RoundTripVel(teme_to_tirs, tirs_to_teme, s) = s.vel
            /\ OffAxis(s.pos) =>
                  /\ RoundTripVel(teme_to_tirs_no_wxr, tirs_to_teme, s) # s.vel
                  /\ RoundTripVel(teme_to_tirs, tirs_to_teme_no_wxr, s) # s.vel
            /\ ~OffAxis(s.pos) =>
                  /\ RoundTripVel(teme_to_tirs_no_wxr, tirs_to_teme, s) = s.vel
                  /\ RoundTripVel(teme_to_tirs, tirs_to_teme_no_wxr, s) = s.vel

C4_Witness ==
    /\ ForwardCall
    /\ last.inp.pos = <<1, 2, 3>>
    /\ last.inp.vel = <<3, -1, 2>>
    /\ RoundTripVel(teme_to_tirs_no_wxr, tirs_to_teme, last.inp) # <<3, -1, 2>>
    /\ RoundTripVel(teme_to_tirs, tirs_to_teme, last.inp) = <<3, -1, 2>>

\* C5: a transform_to call on a state without velocity, between frames joined by
\* registered edges, succeeds and returns a state without velocity.
C5_NoVelocityPassThrough ==
    (last.outcome \notin {"none", "NoPathError"} /\ last.inp.vel = NoVec) =>
        /\ last.outcome = "ok"
        /\ last.result.vel = NoVec

\* The first edge of the last call is one of the two TEME/TIRS function edges.
TemeTirsCall ==
    /\ last.outcome # "none"
    /\ \/ last.inp.frame = "TEME"
       \/ last.inp.frame = "TIRS" /\ last.toframe.frame = "TEME"

\* C6: a TEME/TIRS transform given a state that carries an acceleration (besides its
\* velocity: without one the edge raises ValueError before anything else) fails with
\* UnsupportedQuantityError, and returns no result with the acceleration dropped.
C6_AccelerationRejected ==
    (TemeTirsCall /\ last.inp.acc # NoVec /\ last.inp.vel # NoVec) =>
        /\ last.outcome = "UnsupportedQuantityError"
        /\ last.result = NoCoord

\* C7: a successful transform_to returns a state at the input's instant, in the
\* target frame, whatever the instant of the target frame object.
C7_InstantAndFrame ==
    last.outcome = "ok" =>
        /\ last.result.obstime = last.inp.obstime
        /\ last.result.frame = last.toframe.frame

\* C8: a successful TEME -> ITRS call applies teme_to_tirs and then tirs_to_itrs, a
\* successful ITRS -> TEME call applies itrs_to_tirs and then tirs_to_teme; each edge
\* takes the output of the edge before it and the last output is the result.
C8_PathOrder ==
    last.outcome = "ok" =>
        /\ (last.inp.frame = "TEME" /\ last.toframe.frame = "ITRS") =>
              EdgeNames(last.trace) = <<"teme_to_tirs", "tirs_to_itrs">>
        /\ (last.inp.frame = "ITRS" /\ last.toframe.frame = "TEME") =>
              EdgeNames(last.trace) = <<"itrs_to_tirs", "tirs_to_teme">>
        /\ last.trace[1].inp = last.inp
        /\ \A i \in 1..(Len(last.trace) - 1) : last.trace[i + 1].inp = last.trace[i].out
        /\ last.trace[Len(last.trace)].out = last.result

C8_Witness ==
    /\ last.outcome = "ok"
    /\ last.inp.frame = "TEME"
    /\ last.toframe.frame = "ITRS"
    /\ last.inp.vel # NoVec
    /\ Len(last.trace) = 2
    /\ last.trace[2].edge = "tirs_to_itrs"

\* C9: an applied TIRS -> ITRS edge uses the polar-motion matrix of its input's
\* instant, an applied ITRS -> TIRS edge uses the transpose of the polar-motion matrix
\* of its input's instant, and that matrix times the polar-motion matrix of the same
\* instant is the identity, in both orders.
C9_PolarMotionInverse ==
    \A s \in LastSteps :
        LET xpyp == get_polar_motion(s.inp.obstime)
            rpom == pom00(xpyp[1], xpyp[2], sp00(s.inp.obstime))
        IN  /\ s.edge = "tirs_to_itrs" => s.mat = rpom
            /\ s.edge = "itrs_to_tirs" =>
                  /\ \A i, j \in 1..3 : s.mat[i][j] = rpom[j][i]
                  /\ MatMul(s.mat, rpom) = Identity3
                  /\ MatMul(rpom, s.mat) = Identity3

C9_Witness ==
    \E s \in LastSteps :
        /\ s.edge = "itrs_to_tirs"
        /\ s.mat # _polar_mot_matrix(s.inp.obstime)
        /\ s.inp.pos = <<1, 2, 3>>
        /\ s.out.pos # s.inp.pos

\* C10: an applied matrix edge (TIRS/ITRS) returns the matrix times the position and,
\* when the input has a velocity, the same matrix times the velocity, nothing added.
C10_MatrixEdge ==
    \A s \in LastSteps :
        s.edge \in {"tirs_to_itrs", "itrs_to_tirs"} =>
            LET M == s.mat
                MV(v) == [i \in 1..3 |-> M[i][1] * v[1] + M[i][2] * v[2] + M[i][3] * v[3]]
            IN  /\ s.out.pos = MV(s.inp.pos)
                /\ IF s.inp.vel = NoVec THEN s.out.vel = NoVec
                   ELSE s.out.vel = MV(s.inp.vel)

C10_Witness ==
    \E s \in LastSteps :
        /\ s.edge = "tirs_to_itrs"
        /\ s.inp.pos = <<1, 2, 3>>
        /\ s.inp.vel = <<3, -1, 2>>
        /\ s.out.vel # s.inp.vel

---------------------------------------------------------------------------
(* Properties of the registry (SpecGraph) *)

HasEdge(edges, a, b) == \E e \in edges : e.src = a /\ e.dst = b

\* Some chain of registered edges leads from a to b (three frames: at most two edges).
Connected(edges, a, b) ==
    \/ HasEdge(edges, a, b)
    \/ \E m \in Frames : HasEdge(edges, a, m) /\ HasEdge(edges, m, b)

OnlyTemeTirs(edges) ==
    /\ edges # {}
    /\ \A e \in edges : {e.src, e.dst} = {"TEME", "TIRS"}
    /\ HasEdge(edges, "TEME", "TIRS")
    /\ HasEdge(edges, "TIRS", "TEME")

TransformCall == calls' = calls + 1

\* C11: with only TEME->TIRS and TIRS->TEME registered, a transform from TEME to
\* ITRS fails with NoPathError and returns no state vector.
C11_NoPath ==
    (OnlyTemeTirs(graph) /\ last.inp.frame = "TEME" /\ last.toframe.frame = "ITRS")
        => (last.outcome = "NoPathError" /\ last.result = NoCoord)

C11_Witness ==
    /\ OnlyTemeTirs(graph)
    /\ last.inp.frame = "TEME"
    /\ last.toframe.frame = "ITRS"
    /\ last.outcome = "NoPathError"

\* C12: a call that fails with NoPathError leaves the registered edges as they
\* were, and the transform that succeeded before it gives the same result when
\* it is made again after the failure.
C12_FailureKeepsGraph ==
    [][(TransformCall /\ last'.outcome = "NoPathError")
          => /\ graph' = graph
             /\ last.outcome = "ok"
                  => /\ transform_to(graph', last.inp, last.toframe).outcome = "ok"
                     /\ transform_to(graph', last.inp, last.toframe).result = last.result]_vars

C12_Witness ==
    /\ prev.outcome = "ok"
    /\ last.outcome = "NoPathError"
    /\ transform_to(graph, prev.inp, prev.toframe).result = prev.result

\* C13: a registration adds exactly one directed edge, and a transform finds a
\* path exactly when a chain of registered edges leads from the input's frame
\* to the target: with only A->B registered, B->A fails with NoPathError.
C13_OneDirectedEdge ==
    [][/\ graph' # graph
          => \E e \in AllEdges : e \notin graph /\ graph' = graph \cup {e}
       /\ TransformCall
          => (last'.outcome = "NoPathError"
                <=> ~Connected(graph, last'.inp.frame, last'.toframe.frame))]_vars

C13_Witness ==
    /\ HasEdge(graph, last.toframe.frame, last.inp.frame)
    /\ ~HasEdge(graph, last.inp.frame, last.toframe.frame)
    /\ last.outcome = "NoPathError"

---------------------------------------------------------------------------
(* Properties of the coordinate objects (SpecObjects) *)

TransformStep == Len(log') = Len(log) + 1

LastCall == log[Len(log)]

\* C14: a transform, successful or failed, leaves its input and every other
\* existing object as it was; a successful one returns an object that did not
\* exist before, a failed one creates none.
C14_InputNotMutated ==
    [][TransformStep
          => /\ \A j \in 1..Len(objs) : objs'[j] = objs[j]
             /\ objs'[log'[Len(log')].idx] = log'[Len(log')].inp
             /\ log'[Len(log')].outcome = "ok"
                  => /\ Len(objs') = Len(objs) + 1
                     /\ objs'[Len(objs')] = log'[Len(log')].result
             /\ log'[Len(log')].outcome # "ok" => objs' = objs]_allvars

C14_Witness ==
    /\ log # <<>>
    /\ LastCall.outcome = "ok"
    /\ LastCall.result # LastCall.inp
    /\ objs[LastCall.idx] = LastCall.inp
    /\ objs[Len(objs)] = LastCall.result

C16_NoWrapOnFailure ==
    (sgp4_out # NoOut /\ sgp4_out.e # 0) => objs = <<>>

---------------------------------------------------------------------------
(* Properties of the event engine (SpecEvents) *)

\* The roots the rise/set loop has handled, and those the max/min loop has.
RiseSetHandled ==
    IF pc \in {"sample", "fit", "failed", "evaluate", "rise_set"} THEN 0
    ELSE IF pc = "rise_set_loop" THEN idx
    ELSE Len(roots(sun_alt_interpolator))

MinMaxHandled ==
    IF pc \in {"plot", "done"} THEN Len(roots(derivative(sun_alt_interpolator)))
    ELSE IF pc = "min_max_loop" THEN idx
    ELSE 0

\* The label printed for the j-th root of the altitude, of its derivative.
RiseSetLabel(j) == printed[j]

MinMaxLabel(j) == printed[Len(roots(sun_alt_interpolator)) + j]

\* The altitude falls over the grid step before g and rises over the one after.
TrueMinimum(pp, g) ==
    /\ g - 1 \in Span(pp)
    /\ g + 1 \in Span(pp)
    /\ SignAt(derivative(pp), g - 1) < 0
    /\ SignAt(derivative(pp), g + 1) > 0

\* C17: every root of the altitude interpolant where the derivative is positive is
\* labelled sunrise, and every root where it is negative is labelled sunset.
C17_CrossingLabels ==
    \A j \in 1..RiseSetHandled :
        LET g == roots(sun_alt_interpolator)[j]
            deriv == SignAt(derivative(sun_alt_interpolator), g)
        IN  /\ RiseSetLabel(j).time = g
            /\ deriv > 0 => RiseSetLabel(j).label = "Sunrise"
            /\ deriv < 0 => RiseSetLabel(j).label = "Sunset"

C17_Witness ==
    /\ pc = "min_max"
    /\ \E j \in 1..RiseSetHandled :
          /\ SignAt(sun_interpolator_deriv_alt, printed[j].time) > 0
          /\ printed[j].label = "Sunrise"
    /\ \E j \in 1..RiseSetHandled :
          /\ SignAt(sun_interpolator_deriv_alt, printed[j].time) < 0
          /\ printed[j].label = "Sunset"

\* C18: every root of the derivative interpolant where the altitude is positive is
\* labelled highest, and every root where it is negative is labelled lowest.
C18_ExtremumLabels ==
    \A j \in 1..MinMaxHandled :
        LET g == roots(derivative(sun_alt_interpolator))[j]
            pos == SignAt(sun_alt_interpolator, g)
        IN  /\ MinMaxLabel(j).time = g
            /\ pos > 0 => MinMaxLabel(j).label = "Sun highest"
            /\ pos < 0 => MinMaxLabel(j).label = "Sun lowest"

C18_Witness ==
    /\ pc = "plot"
    /\ \E j \in 1..MinMaxHandled :
          /\ SignAt(sun_alt_interpolator, MinMaxLabel(j).time) > 0
          /\ MinMaxLabel(j).label = "Sun highest"
    /\ \E j \in 1..MinMaxHandled :
          /\ SignAt(sun_alt_interpolator, MinMaxLabel(j).time) < 0
          /\ MinMaxLabel(j).label = "Sun lowest"

\* C19: when the altitude has the same sign at every root of the derivative, every
\* one of them gets the same label: highest if the sign is positive (a minimum
\* included), lowest if it is negative (a maximum included).
C19_SameSignSameLabel ==
    LET dr == roots(derivative(sun_alt_interpolator))
    IN  pc \in {"plot", "done"} =>
          /\ (\A j \in 1..Len(dr) : SignAt(sun_alt_interpolator, dr[j]) > 0)
                => \A j \in 1..Len(dr) : MinMaxLabel(j).label = "Sun highest"
          /\ (\A j \in 1..Len(dr) : SignAt(sun_alt_interpolator, dr[j]) < 0)
                => \A j \in 1..Len(dr) : MinMaxLabel(j).label = "Sun lowest"

C19_Witness ==
    LET dr == roots(derivative(sun_alt_interpolator))
    IN  /\ pc = "plot"
        /\ Len(dr) > 1
        /\ \A j \in 1..Len(dr) : SignAt(sun_alt_interpolator, dr[j]) > 0
        /\ \E j \in 1..Len(dr) :
              /\ TrueMinimum(sun_alt_interpolator, dr[j])
              /\ MinMaxLabel(j).label = "Sun highest"

\* C20: when every altitude sample lies on the same side of zero, the altitude
\* interpolant has no roots and no sunrise or sunset is printed.
C20_NoCrossingNoEvents ==
    (/\ pc \in {"min_max", "min_max_loop", "plot", "done"}
     /\ \/ \A i \in 1..Len(alt) : alt[i] > 0
        \/ \A i \in 1..Len(alt) : alt[i] < 0)
        => /\ roots(sun_alt_interpolator) = <<>>
           /\ \A j \in 1..Len(printed) : printed[j].label \notin {"Sunrise", "Sunset"}

Increasing(s) == \A i \in 1..(Len(s) - 1) : s[i] < s[i + 1]

\* The event times the rise/set loop has printed, and those the max/min loop has.
RiseSetTimes == [j \in 1..RiseSetHandled |-> RiseSetLabel(j).time]

MinMaxTimes == [j \in 1..MinMaxHandled |-> MinMaxLabel(j).time]

Constructed == pc \notin {"sample", "fit"}

\* C22: an interpolator given time samples that are not strictly increasing (a time
\* before its predecessor, a repeated time) fails with NonMonotonicSamplesError at
\* construction: no interpolator and no derivative exists, and no root is ever asked
\* for; strictly increasing samples never raise it.
C22_NonMonotonicFailsAtConstruction ==
    Constructed =>
        IF StrictlyIncreasing(t__float_list)
        THEN raised = "" /\ sun_alt_interpolator # NoPPoly
        ELSE /\ raised = "NonMonotonicSamplesError"
             /\ pc = "failed"
             /\ sun_alt_interpolator = NoPPoly
             /\ sun_interpolator_deriv_alt = NoPPoly
             /\ sun_interp_alt = Unbound
             /\ events = <<>>
             /\ printed = <<>>

C22_Witness ==
    /\ pc = "failed"
    /\ raised = "NonMonotonicSamplesError"
    /\ t__float_list[2] < t__float_list[1]
    /\ t__float_list[1] < t__float_list[3]

\* C23: asking the interpolated altitude for a time outside the sample times fails
\* with OutOfRangeError and yields no value.
C23_OutOfRangeFails ==
    (interp_time # Unbound /\ interp_time[1] \notin Span(sun_alt_interpolator))
        => raised = "OutOfRangeError" /\ sun_interp_alt = Unbound

\* The number of lines the two loops have printed so far.
LinesPrinted == RiseSetHandled + MinMaxHandled

\* C26: the rise/set loop gives every root it handles exactly one of the two labels:
\* sunrise exactly when the derivative there is positive, sunset otherwise, so a
\* root where the derivative is exactly zero is labelled sunset.
C26_RiseSetTotal ==
    /\ raised = "" => Len(printed) = LinesPrinted
    /\ \A j \in 1..RiseSetHandled :
          LET deriv == SignAt(derivative(sun_alt_interpolator), RiseSetLabel(j).time)
          IN  /\ RiseSetLabel(j).label \in {"Sunrise", "Sunset"}
              /\ RiseSetLabel(j).label = "Sunrise" <=> deriv > 0
              /\ deriv = 0 => RiseSetLabel(j).label = "Sunset"

C26_Witness ==
    \E j \in 1..RiseSetHandled :
        /\ SignAt(sun_interpolator_deriv_alt, RiseSetLabel(j).time) = 0
        /\ RiseSetLabel(j).label = "Sunset"
        /\ sun_set_time = <<RiseSetLabel(j).time>>

\* C27: the max/min loop gives every derivative root it handles exactly one of the
\* two labels: highest exactly when the altitude there is positive, lowest otherwise,
\* so a derivative root where the altitude is exactly zero is labelled lowest.
C27_MinMaxTotal ==
    /\ raised = "" => Len(printed) = LinesPrinted
    /\ \A j \in 1..MinMaxHandled :
          LET pos == SignAt(sun_alt_interpolator, MinMaxLabel(j).time)
          IN  /\ MinMaxLabel(j).label \in {"Sun highest", "Sun lowest"}
              /\ MinMaxLabel(j).label = "Sun highest" <=> pos > 0
              /\ pos = 0 => MinMaxLabel(j).label = "Sun lowest"

C27_Witness ==
    \E j \in 1..MinMaxHandled :
        /\ SignAt(sun_alt_interpolator, MinMaxLabel(j).time) = 0
        /\ MinMaxLabel(j).label = "Sun lowest"

\* The roots the rise/set loop has handled where the derivative is positive, and
\* those where it is not.
RisingHandled ==
    {RiseSetLabel(j).time : j \in {k \in 1..RiseSetHandled :
        SignAt(derivative(sun_alt_interpolator), RiseSetLabel(k).time) > 0}}

FallingHandled ==
    {RiseSetLabel(j).time : j \in {k \in 1..RiseSetHandled :
        SignAt(derivative(sun_alt_interpolator), RiseSetLabel(k).time) <= 0}}

Latest(S) == CHOOSE a \in S : \A b \in S : b <= a

\* C28: the retained sunrise time is the time of the last root handled so far with a
\* positive derivative, and the retained sunset time that of the last other root:
\* with several such roots the earlier times are overwritten.
C28_LastCrossingRetained ==
    /\ sun_rise_time = IF RisingHandled = {} THEN Unbound ELSE <<Latest(RisingHandled)>>
    /\ sun_set_time = IF FallingHandled = {} THEN Unbound ELSE <<Latest(FallingHandled)>>

C28_Witness ==
    /\ pc = "min_max"
    /\ Cardinality(RisingHandled) > 1
    /\ Cardinality(FallingHandled) > 1
    /\ sun_rise_time = <<Latest(RisingHandled)>>
    /\ sun_set_time = <<Latest(FallingHandled)>>

\* The altitude interpolant has a root with positive derivative, a root with
\* derivative zero or negative.
HasRisingRoot ==
    \E g \in RootSet(sun_alt_interpolator) : SignAt(derivative(sun_alt_interpolator), g) > 0

HasFallingRoot ==
    \E g \in RootSet(sun_alt_interpolator) : SignAt(derivative(sun_alt_interpolator), g) <= 0

\* C29: when the markers are drawn, the sunrise time is assigned exactly if the
\* interpolant had a root with positive derivative and the sunset time exactly if it
\* had a root with non-positive derivative; the step succeeds exactly if both are,
\* and otherwise it reads a time that was never assigned.
C29_MarkersNeedBothKinds ==
    pc = "done" =>
        /\ sun_rise_time # Unbound <=> HasRisingRoot
        /\ sun_set_time # Unbound <=> HasFallingRoot
        /\ plot = "ok" <=> (HasRisingRoot /\ HasFallingRoot)
        /\ plot = "NameError" <=> ~(HasRisingRoot /\ HasFallingRoot)

C29_Witness ==
    /\ pc = "done"
    /\ plot = "NameError"
    /\ HasRisingRoot
    /\ ~HasFallingRoot
    /\ sun_rise_time # Unbound
    /\ sun_set_time = Unbound

\* The rotation each TEME/TIRS edge applies to the position, for the sidereal angle
\* at instant t.
SiderealRotation(edge, t) ==
    IF edge = "teme_to_tirs"
    THEN rotation_matrix_z(_gmst82_angle(t))
    ELSE Transpose(rotation_matrix_z(_gmst82_angle(t)))

\* A direct TEME -> TIRS call followed by a direct TIRS -> TEME call on its result.
ForwardThenReverse ==
    /\ DirectCall(prev)
    /\ DirectCall(last)
    /\ prev.trace[1].edge = "teme_to_tirs"
    /\ last.trace[1].edge = "tirs_to_teme"
    /\ last.inp = prev.result

C30_WitnessReverse ==
    /\ ForwardThenReverse
    /\ OffAxis(prev.inp.pos)
    /\ last.inp.obstime # prev.inp.obstime
    /\ last.result.pos # prev.inp.pos

\* The last call had a path to follow and its input carries an instant the
\* Earth-orientation table does not cover: the first edge asks the provider for it.
AsksUncovered ==
    /\ last.outcome # "none"
    /\ find_shortest_path(graph, last.inp.frame, last.toframe.frame) # <<>>
    /\ ~IersCovers(last.inp.obstime)

\* C24: a transform whose edge asks the Earth-orientation provider for an instant
\* it cannot answer fails with EarthOrientationUnavailableError and returns no
\* state.
C24_ProviderFailurePropagates ==
    AsksUncovered =>
        /\ last.outcome = "EarthOrientationUnavailableError"
        /\ last.result = NoCoord

\* What the worker's call gives when it runs alone.
Alone(w) == transform_to(graph, wjob[w].inp, wjob[w].toframe)

\* What is left of the worker's call gives, run alone from where the worker is.
Remaining(w) == ApplyPath(wcur[w], wpath[w], wjob[w].toframe, <<>>)

\* C25: however the steps of the workers interleave, each worker's transform of its
\* own state ends as it would running alone, and the registered edges are only read.
C25_WorkersIndependent ==
    \A w \in Workers :
        /\ wpc[w] # "idle" => graph = TirsCellEdges \cup TemeCellEdges
        /\ wpc[w] = "run" =>
              /\ Remaining(w).outcome = Alone(w).outcome
              /\ Remaining(w).result = Alone(w).result
        /\ wpc[w] = "done" =>
              /\ wres[w].outcome = Alone(w).outcome
              /\ wres[w].result = Alone(w).result

C25_Witness ==
    /\ \A w \in Workers : wpc[w] = "done" /\ wmixed[w] /\ wres[w].outcome = "ok"
    /\ wjob[1].toframe # wjob[2].toframe
    /\ wjob[1].toframe.frame = "ITRS"
    /\ wres[1].result = Alone(1).result
    /\ wres[2].result = Alone(2).result
    /\ wres[1].result.pos # wres[2].result.pos

====
